---- MODULE Spec2Model ----
(***************************************************************************)
(* Model of server.js (Wichteln): the derangement generator, the           *)
(* assignment validator, the stored round (state.json) and the HTTP        *)
(* handlers that read and write it.                                        *)
(*                                                                         *)
(* Three specifications share the module:                                  *)
(*   SpecGen       createDerangement, one loop iteration per step          *)
(*   SpecValidate  validateAssignments applied to candidate mappings       *)
(*   Spec          the server: one action per request handler              *)
(***************************************************************************)
EXTENDS Integers, Sequences, FiniteSets, TLC

VARIABLES
    file,       \* content of state.json
    resp,       \* the response of the latest request
    drawn,      \* history: giftee each giver has been shown in the stored round
    boot,       \* process lifecycle: "restarted", "first" (request after a restart), "later"
    prev,       \* history: content of state.json before the latest request
    inflight,   \* draw requests received and not yet handled, and their history
    gnames,     \* createDerangement: the argument names
    attempts,   \* createDerangement: let attempts
    perm,       \* createDerangement: let perm
    gpc,        \* createDerangement: position ("start", "loop", "done", "idle")
    gres,       \* createDerangement: the outcome (return value or thrown error)
    cand,       \* validateAssignments: the argument assignments
    verdict     \* validateAssignments: the outcome

vars == <<file, resp, drawn, boot, prev, inflight, gnames, attempts, perm, gpc, gres,
          cand, verdict>>
serverVars == <<file, resp, drawn, boot, prev>>
genVars == <<gnames, attempts, perm, gpc, gres>>
valVars == <<cand, verdict>>
reqVars == <<inflight>>

(***************************************************************************)
(* Configuration                                                           *)
(***************************************************************************)

\* const NAMES = [...] as written in the source (11 participants).
AllNames == <<"Anni", "Ben", "Beni", "Daniel", "Elisa", "Till", "Dustin",
              "Johann", "Lara", "Marvin", "Paul">>

\* The model runs the program with the first NumNames participants.
NumNames == 3

NAMES == SubSeq(AllNames, 1, NumNames)

\* if (attempts > 10000) throw
MaxAttempts == 10000

\* A name that is not a participant, and the falsy string.
Outsider == "Zed"
Empty == ""

Range(s) == {s[i] : i \in 1..Len(s)}

\* Array.prototype.includes on an array of strings.
Includes(s, x) == \E i \in 1..Len(s) : s[i] = x

(***************************************************************************)
(* validateAssignments(assignments, names)                                 *)
(* An assignments object is a function from its own keys to string values; *)
(* a key that is absent reads as undefined, which is falsy like "".        *)
(***************************************************************************)

Ok == [ok |-> TRUE, reason |-> "ok", name |-> Empty]
Err(reason, name) == [ok |-> FALSE, reason |-> reason, name |-> name]

ErrKeyCount == "Anzahl Schluessel passt nicht"
ErrValueCount == "Anzahl Werte passt nicht"
ErrMissing == "Kein Wichtel"
ErrSelf == "beschenkt sich selbst"
ErrDuplicate == "Ein Name wird mehrfach beschenkt"
ErrTooFew == "Zu wenige Namen"
ErrCeiling == "Konnte keinen gueltigen Wichtel-Plan erzeugen"

\* Object.keys(assignments).length and Object.values(assignments).length
KeysLength(assignments) == Cardinality(DOMAIN assignments)
ValuesLength(assignments) == Cardinality(DOMAIN assignments)

\* !assignments[name]
Falsy(assignments, name) ==
    IF name \in DOMAIN assignments THEN assignments[name] = Empty ELSE TRUE

\* assignments[name] === name
MapsToSelf(assignments, name) ==
    name \in DOMAIN assignments /\ assignments[name] = name

\* for (const name of names) { missing? self? }, from index i on
RECURSIVE nameLoop(_, _, _)
nameLoop(assignments, names, i) ==
    IF i > Len(names) THEN Ok
    ELSE IF Falsy(assignments, names[i]) THEN Err(ErrMissing, names[i])
    ELSE IF MapsToSelf(assignments, names[i]) THEN Err(ErrSelf, names[i])
    ELSE nameLoop(assignments, names, i + 1)

\* Mutant of DuplicateValues: the Set is built from the keys.
DuplicateKeys(assignments) ==
    Cardinality(DOMAIN assignments) # ValuesLength(assignments)

\* new Set(values).size !== values.length
DuplicateValues(assignments) ==
    Cardinality({assignments[k] : k \in DOMAIN assignments}) # ValuesLength(assignments)

\* Mutant of validateAssignments: the duplicate check runs before the loop
\* over the names.
validateDuplicatesFirst(assignments, names) ==
    IF KeysLength(assignments) # Len(names) THEN Err(ErrKeyCount, Empty)
    ELSE IF ValuesLength(assignments) # Len(names) THEN Err(ErrValueCount, Empty)
    ELSE IF DuplicateValues(assignments) THEN Err(ErrDuplicate, Empty)
    ELSE nameLoop(assignments, names, 1)

validateAssignments(assignments, names) ==
    IF KeysLength(assignments) # Len(names) THEN Err(ErrKeyCount, Empty)
    ELSE IF ValuesLength(assignments) # Len(names) THEN Err(ErrValueCount, Empty)
    ELSE IF ~nameLoop(assignments, names, 1).ok THEN nameLoop(assignments, names, 1)
    ELSE IF DuplicateValues(assignments) THEN Err(ErrDuplicate, Empty)
    ELSE Ok

(***************************************************************************)
(* createDerangement(names)                                                *)
(***************************************************************************)

Return(assignments) == [kind |-> "return", assignments |-> assignments, error |-> Empty]
Throw(error) == [kind |-> "throw", assignments |-> <<>>, error |-> error]

\* The draws of one shuffle: for i = n-1 down to 1 (0-based), j in 0..i.
\* draws[i] is the j drawn for 0-based index i.
ShuffleDraws(n) == {d \in [1..(n - 1) -> 0..(n - 1)] : \A i \in 1..(n - 1) : d[i] <= i}

\* [perm[i], perm[j]] = [perm[j], perm[i]] on 0-based indices
Swap(p, i, j) == [p EXCEPT ![i + 1] = p[j + 1], ![j + 1] = p[i + 1]]

\* The Fisher-Yates loop from 0-based index i down to 1.
RECURSIVE shuffleFrom(_, _, _)
shuffleFrom(p, draws, i) ==
    IF i < 1 THEN p ELSE shuffleFrom(Swap(p, i, draws[i]), draws, i - 1)

Shuffle(names, draws) == shuffleFrom(names, draws, Len(names) - 1)

\* Mutant of HasFixedPoint: the first index is never compared.
HasFixedPointSkipsFirst(p, names) == \E i \in 2..Len(p) : p[i] = names[i]

\* perm.some((name, index) => name === names[index])
HasFixedPoint(p, names) == \E i \in 1..Len(p) : p[i] = names[i]

\* Mutant of swapTwo: the second entry written with the wrong index.
swapTwoWrongIndex(names) ==
    [k \in {names[1], names[2]} |-> names[2]]

\* n === 2: { [names[0]]: names[1], [names[1]]: names[0] }; a later equal key
\* overwrites the earlier one.
swapTwo(names) ==
    [k \in {names[1], names[2]} |-> IF k = names[2] THEN names[1] ELSE names[2]]

\* for (i < n) assignments[names[i]] = perm[i]; the last write to a key wins.
buildAssignments(names, p) ==
    [k \in Range(names) |->
        p[CHOOSE i \in 1..Len(names) :
            names[i] = k /\ \A j \in (i + 1)..Len(names) : names[j] # k]]

\* Lines 89-97: build the mapping, validate it, return it.
finish(names, p) ==
    LET assignments == buildAssignments(names, p)
        v == validateAssignments(assignments, names)
    IN IF v.ok THEN Return(assignments) ELSE Throw(v.reason)

\* Every outcome createDerangement(names) can have, over all random draws.
createDerangement(names) ==
    IF Len(names) < 2 THEN {Throw(ErrTooFew)}
    ELSE IF Len(names) = 2 THEN {Return(swapTwo(names))}
    ELSE {finish(names, Shuffle(names, d)) :
             d \in {e \in ShuffleDraws(Len(names)) : ~HasFixedPoint(Shuffle(names, e), names)}}
         \cup {Throw(ErrCeiling)}

(***************************************************************************)
(* Idle values of the variables a specification does not use               *)
(***************************************************************************)

NoResult == [kind |-> "none", assignments |-> <<>>, error |-> Empty]
NoVerdict == [ok |-> FALSE, reason |-> "none", name |-> Empty]

GenIdle ==
    /\ gnames = <<>>
    /\ attempts = 0
    /\ perm = <<>>
    /\ gpc = "idle"
    /\ gres = NoResult

ValIdle ==
    /\ cand = <<>>
    /\ verdict = NoVerdict

\* No request is waiting for its handler.
NoRequests == [pending |-> {}, done |-> {}, overlap |-> {}]

ReqIdle == inflight = NoRequests

(***************************************************************************)
(* SpecGen: createDerangement step by step (lines 56-98)                   *)
(***************************************************************************)

\* The argument: the first k configured names, k = 0..NumNames.
GenInputs == {SubSeq(AllNames, 1, k) : k \in 0..NumNames}

\* Lines 57-72: the two early exits, then let attempts = 0.
GenEnter ==
    /\ gpc = "start"
    /\ IF Len(gnames) < 2
       THEN gres' = Throw(ErrTooFew) /\ gpc' = "done"
       ELSE IF Len(gnames) = 2
            THEN gres' = Return(swapTwo(gnames)) /\ gpc' = "done"
            ELSE gres' = gres /\ gpc' = "loop"
    /\ attempts' = 0
    /\ UNCHANGED <<gnames, perm>>
    /\ UNCHANGED <<serverVars, valVars, reqVars>>

\* Lines 74-97: one iteration of the do-while loop, and, when the loop exits,
\* the mapping built from perm, validated and returned.
GenAttempt ==
    /\ gpc = "loop"
    /\ \E d \in ShuffleDraws(Len(gnames)) :
        LET a == attempts + 1
            p == Shuffle(gnames, d)
        IN /\ attempts' = a
           /\ perm' = p
           /\ IF a > MaxAttempts
              THEN gres' = Throw(ErrCeiling) /\ gpc' = "done"
              ELSE IF HasFixedPoint(p, gnames)
                   THEN gres' = gres /\ gpc' = "loop"
                   ELSE gres' = finish(gnames, p) /\ gpc' = "done"
    /\ UNCHANGED gnames
    /\ UNCHANGED <<serverVars, valVars, reqVars>>

(***************************************************************************)
(* SpecValidate: validateAssignments on a candidate mapping (lines 106-132)*)
(***************************************************************************)

KeyPool == Range(NAMES) \cup {Outsider}
ValuePool == Range(NAMES) \cup {Outsider, Empty}

\* Every object with keys from KeyPool and values from ValuePool.
Candidates == UNION {[S -> ValuePool] : S \in SUBSET KeyPool}

Validate ==
    /\ verdict = NoVerdict
    /\ verdict' = validateAssignments(cand, NAMES)
    /\ UNCHANGED cand
    /\ UNCHANGED <<serverVars, genVars, reqVars>>

(***************************************************************************)
(* The stored round: loadState, saveState (lines 32-47)                    *)
(* A JavaScript state value is a record; Null stands for null. The file is *)
(* absent, or holds text that JSON.parse rejects, or holds the JSON text   *)
(* of a value. JSON.stringify followed by JSON.parse gives back a          *)
(* structurally equal value for arrays of strings and objects with string  *)
(* values, which is all the program writes. A field the object lacks       *)
(* (hasAssignments, hasRevealed FALSE) reads as undefined.                 *)
(***************************************************************************)

Null == [null |-> TRUE, names |-> <<>>, hasAssignments |-> FALSE,
         assignments |-> <<>>, hasRevealed |-> FALSE, revealed |-> <<>>]

\* { names, assignments, revealed }
Round(names, assignments, revealed) ==
    [null |-> FALSE, names |-> names, hasAssignments |-> TRUE,
     assignments |-> assignments, hasRevealed |-> TRUE, revealed |-> revealed]

FileAbsent == [kind |-> "absent", value |-> Null]
FileGarbage == [kind |-> "garbage", value |-> Null]

JSONStringify(value) == [kind |-> "json", value |-> value]

\* JSON.parse: the value, or a SyntaxError.
JSONParse(raw) ==
    IF raw.kind = "json" THEN [threw |-> FALSE, value |-> raw.value]
    ELSE [threw |-> TRUE, value |-> Null]

loadState(f) ==
    IF f.kind = "absent" THEN Null
    ELSE IF JSONParse(f).threw THEN Null
    ELSE JSONParse(f).value

saveState(state) == JSONStringify(state)

(***************************************************************************)
(* initState(forceNew) (lines 140-169)                                     *)
(* The set of its outcomes on file f, one per outcome of createDerangement.*)
(***************************************************************************)

\* const assignments = createDerangement(NAMES): its outcomes.
newAssignments == createDerangement(NAMES)

\* Mutant of newRound: the new round is returned and never saved.
newRoundNotSaved(f) ==
    {IF g.kind = "throw"
        THEN [threw |-> TRUE, error |-> g.error, state |-> Null, file |-> f,
              generated |-> FALSE]
        ELSE [threw |-> FALSE, error |-> Empty,
              state |-> Round(NAMES, g.assignments, <<>>),
              file |-> f,
              generated |-> TRUE]
     : g \in newAssignments}

\* Mutant of newRound: the file is emptied before the generator is called.
newRoundClearsFirst(f) ==
    {IF g.kind = "throw"
        THEN [threw |-> TRUE, error |-> g.error, state |-> Null,
              file |-> FileAbsent, generated |-> FALSE]
        ELSE [threw |-> FALSE, error |-> Empty,
              state |-> Round(NAMES, g.assignments, <<>>),
              file |-> saveState(Round(NAMES, g.assignments, <<>>)),
              generated |-> TRUE]
     : g \in newAssignments}

\* Lines 145-151 and 158-164: a new round, saved; or the generator's error,
\* thrown before anything is written.
newRound(f) ==
    {IF g.kind = "throw"
        THEN [threw |-> TRUE, error |-> g.error, state |-> Null, file |-> f,
              generated |-> FALSE]
        ELSE [threw |-> FALSE, error |-> Empty,
              state |-> Round(NAMES, g.assignments, <<>>),
              file |-> saveState(Round(NAMES, g.assignments, <<>>)),
              generated |-> TRUE]
     : g \in newAssignments}

\* Mutant of initState: every call starts a new round.
initStateAlwaysNew(forceNew, f) == newRound(f)

\* Mutant of initState: forceNew is ignored and the stored round is loaded.
initStateIgnoresForce(forceNew, f) ==
    LET state == loadState(f)
    IN IF state.null \/ ~state.hasAssignments
       THEN newRound(f)
       ELSE IF validateAssignments(state.assignments, NAMES).ok
            THEN {[threw |-> FALSE, error |-> Empty, state |-> state, file |-> f,
                   generated |-> FALSE]}
            ELSE newRound(f)

\* Mutant of initState: a stored revealed list that is missing, repeats a name
\* or names a stranger also leads to a new round.
initStateChecksRevealed(forceNew, f) ==
    LET state == IF forceNew THEN Null ELSE loadState(f)
    IN IF state.null \/ ~state.hasAssignments
       THEN newRound(f)
       ELSE IF /\ validateAssignments(state.assignments, NAMES).ok
               /\ state.hasRevealed
               /\ Range(state.revealed) \subseteq Range(NAMES)
               /\ Cardinality(Range(state.revealed)) = Len(state.revealed)
            THEN {[threw |-> FALSE, error |-> Empty, state |-> state, file |-> f,
                   generated |-> FALSE]}
            ELSE newRound(f)

initState(forceNew, f) ==
    LET state == IF forceNew THEN Null ELSE loadState(f)
    IN IF state.null \/ ~state.hasAssignments
       THEN newRound(f)
       ELSE IF validateAssignments(state.assignments, NAMES).ok
            THEN {[threw |-> FALSE, error |-> Empty, state |-> state, file |-> f,
                   generated |-> FALSE]}
            ELSE newRound(f)

(***************************************************************************)
(* getPublicState (lines 174-184)                                          *)
(***************************************************************************)

\* Mutant of FilterOut: the negation is lost and the revealed names are kept.
FilterOutKeepsRevealed(names, revealed) ==
    SelectSeq(names, LAMBDA n : Includes(revealed, n))

\* state.names.filter(n => !revealedSet.has(n))
FilterOut(names, revealed) == SelectSeq(names, LAMBDA n : ~Includes(revealed, n))

\* Mutant of publicView: the whole state is returned.
publicViewWithAssignments(state) ==
    [names |-> state.names,
     availableNames |-> SelectSeq(state.names, LAMBDA n : ~Includes(state.revealed, n)),
     revealed |-> state.revealed,
     assignments |-> state.assignments]

\* new Set(undefined) is empty, and res.json leaves an undefined field out.
publicView(state) ==
    IF state.hasRevealed
    THEN [names |-> state.names,
          availableNames |-> FilterOut(state.names, state.revealed),
          revealed |-> state.revealed]
    ELSE [names |-> state.names,
          availableNames |-> FilterOut(state.names, <<>>)]

getPublicState(f) ==
    {[threw |-> o.threw, file |-> o.file, generated |-> o.generated,
      view |-> IF o.threw THEN <<>> ELSE publicView(o.state)]
     : o \in initState(FALSE, f)}

(***************************************************************************)
(* The request handlers (lines 189-249)                                    *)
(* resp records the latest request (op, name) and what was answered.       *)
(***************************************************************************)

ErrInvalidName == "Ungueltiger Name"
ErrNoAssignment == "Fuer diesen Namen gibt es keine Zuordnung"
ErrInternal == "Internal Server Error"
ErrLoadState == "Fehler beim Laden des Zustands"
ErrReset == "Fehler beim Reset"
ErrDebug == "Fehler beim Debug-Zugriff"

NoResponse ==
    [op |-> "none", name |-> Empty, status |-> 0, error |-> Empty,
     giftee |-> Empty, alreadyRevealed |-> FALSE, body |-> <<>>]

Failure(op, name, status, error) ==
    [NoResponse EXCEPT !.op = op, !.name = name, !.status = status, !.error = error]

\* res.json({ name, giftee, alreadyRevealed })
DrawResponse(name, giftee, alreadyRevealed) ==
    [NoResponse EXCEPT !.op = "draw", !.name = name, !.status = 200,
                       !.giftee = giftee, !.alreadyRevealed = alreadyRevealed]

\* res.json(body)
BodyResponse(op, body) ==
    [NoResponse EXCEPT !.op = op, !.status = 200, !.body = body]

\* The names a draw request may carry: a participant, a stranger, or none.
DrawInputs == Range(NAMES) \cup {Outsider, Empty}

\* Mutant of invalidName: only the missing name is rejected.
invalidNameOnlyMissing(name) == name = Empty

\* !name || !NAMES.includes(name)
invalidName(name) == name = Empty \/ ~Includes(NAMES, name)

\* Mutant of reveal: the giver is appended whether or not already revealed.
revealAlwaysPush(state, f, name) ==
    [file |-> saveState([state EXCEPT !.revealed = Append(state.revealed, name)]),
     resp |-> DrawResponse(name, state.assignments[name], Includes(state.revealed, name))]

\* Mutant of reveal: the giver is appended in memory and the round is not saved.
revealNoSave(state, f, name) ==
    [file |-> f,
     resp |-> DrawResponse(name, state.assignments[name], Includes(state.revealed, name))]

\* Mutant of reveal: the revealed list is replaced by the giver alone.
revealOverwrite(state, f, name) ==
    [file |-> IF ~Includes(state.revealed, name)
              THEN saveState([state EXCEPT !.revealed = <<name>>])
              ELSE f,
     resp |-> DrawResponse(name, state.assignments[name], Includes(state.revealed, name))]

\* Mutant of reveal: alreadyRevealed is read after the giver was appended.
revealFlagAfterPush(state, f, name) ==
    [file |-> IF ~Includes(state.revealed, name)
              THEN saveState([state EXCEPT !.revealed = Append(state.revealed, name)])
              ELSE f,
     resp |-> DrawResponse(name, state.assignments[name], TRUE)]

\* Mutant of reveal: the giftee is looked up for the first member.
revealFirstGiftee(state, f, name) ==
    [file |-> IF ~Includes(state.revealed, name)
              THEN saveState([state EXCEPT !.revealed = Append(state.revealed, name)])
              ELSE f,
     resp |-> DrawResponse(name, state.assignments[NAMES[1]], Includes(state.revealed, name))]

\* Mutant of reveal: nothing is revealed once one giver is left.
revealKeepsLast(state, f, name) ==
    [file |-> IF ~Includes(state.revealed, name) /\ Len(state.revealed) + 1 < Len(NAMES)
              THEN saveState([state EXCEPT !.revealed = Append(state.revealed, name)])
              ELSE f,
     resp |-> DrawResponse(name, state.assignments[name], Includes(state.revealed, name))]

\* Lines 213-225: state is what initState returned, f the file it left.
reveal(state, f, name) ==
    LET alreadyRevealed == Includes(state.revealed, name)
        giftee == state.assignments[name]
    IN [file |-> IF ~alreadyRevealed
                 THEN saveState([state EXCEPT !.revealed = Append(state.revealed, name)])
                 ELSE f,
        resp |-> DrawResponse(name, giftee, alreadyRevealed)]

\* POST /api/draw with body { name }: the outcomes on file f. An error thrown
\* by initState, or by state.revealed.includes when the stored object has no
\* revealed list, is not caught here; the framework answers 500.
drawHandler(name, f) ==
    IF invalidName(name)
    THEN {[file |-> f, generated |-> FALSE,
           resp |-> Failure("draw", name, 400, ErrInvalidName)]}
    ELSE {IF o.threw
             THEN [file |-> o.file, generated |-> FALSE,
                   resp |-> Failure("draw", name, 500, ErrInternal)]
             ELSE IF Falsy(o.state.assignments, name)
                  THEN [file |-> o.file, generated |-> o.generated,
                        resp |-> Failure("draw", name, 400, ErrNoAssignment)]
                  ELSE IF ~o.state.hasRevealed
                  THEN [file |-> o.file, generated |-> o.generated,
                        resp |-> Failure("draw", name, 500, ErrInternal)]
                  ELSE [file |-> reveal(o.state, o.file, name).file,
                        generated |-> o.generated,
                        resp |-> reveal(o.state, o.file, name).resp]
          : o \in initState(FALSE, f)}

\* GET /api/state
stateHandler(f) ==
    {[file |-> o.file, generated |-> o.generated,
      resp |-> IF o.threw THEN Failure("state", Empty, 500, ErrLoadState)
               ELSE BodyResponse("state", o.view)]
     : o \in getPublicState(f)}

\* POST /api/reset
resetHandler(f) ==
    {[file |-> o.file, generated |-> o.generated,
      resp |-> IF o.threw THEN Failure("reset", Empty, 500, ErrReset)
               ELSE BodyResponse("reset", <<>>)]
     : o \in initState(TRUE, f)}

\* GET /api/debug-assignments
debugHandler(f) ==
    {[file |-> o.file, generated |-> o.generated,
      resp |-> IF o.threw THEN Failure("debug", Empty, 500, ErrDebug)
               ELSE BodyResponse("debug", o.state.assignments)]
     : o \in initState(FALSE, f)}

(***************************************************************************)
(* Spec: the server                                                        *)
(***************************************************************************)

NoDraws == [n \in Range(NAMES) |-> Empty]

\* The latest request is the first after a (re)start, or a later one.
Served == IF boot = "restarted" THEN "first" ELSE "later"

\* A generated round has shown nobody anything yet.
History(generated) == IF generated THEN NoDraws ELSE drawn

Draw ==
    \E name \in DrawInputs : \E r \in drawHandler(name, file) :
        /\ file' = r.file
        /\ resp' = r.resp
        /\ drawn' = IF r.resp.status = 200
                    THEN [History(r.generated) EXCEPT ![name] = r.resp.giftee]
                    ELSE History(r.generated)
        /\ boot' = Served
        /\ prev' = file
        /\ UNCHANGED <<genVars, valVars, reqVars>>

GetState ==
    \E r \in stateHandler(file) :
        /\ file' = r.file
        /\ resp' = r.resp
        /\ drawn' = History(r.generated)
        /\ boot' = Served
        /\ prev' = file
        /\ UNCHANGED <<genVars, valVars, reqVars>>

Reset ==
    \E r \in resetHandler(file) :
        /\ file' = r.file
        /\ resp' = r.resp
        /\ drawn' = History(r.generated)
        /\ boot' = Served
        /\ prev' = file
        /\ UNCHANGED <<genVars, valVars, reqVars>>

DebugAssignments ==
    \E r \in debugHandler(file) :
        /\ file' = r.file
        /\ resp' = r.resp
        /\ drawn' = History(r.generated)
        /\ boot' = Served
        /\ prev' = file
        /\ UNCHANGED <<genVars, valVars, reqVars>>

\* The process stops and starts again: it keeps nothing in memory between
\* requests, so only the file survives, as it is.
Restart ==
    /\ boot # "restarted"
    /\ boot' = "restarted"
    /\ resp' = NoResponse
    /\ prev' = file
    /\ UNCHANGED <<file, drawn>>
    /\ UNCHANGED <<genVars, valVars, reqVars>>

\* Before the first request of a fresh deployment there is no state.json.
Init ==
    /\ file = FileAbsent
    /\ resp = NoResponse
    /\ drawn = NoDraws
    /\ boot = "restarted"
    /\ prev = FileAbsent
    /\ GenIdle
    /\ ValIdle
    /\ ReqIdle

Next == Draw \/ GetState \/ Reset \/ DebugAssignments \/ Restart

Spec == Init /\ [][Next]_vars

(***************************************************************************)
(* SpecStorage: the server started on a state.json it did not write        *)
(* (left by another version, damaged, or edited by hand)                   *)
(***************************************************************************)

\* One derangement of the members: each gives to the next, the last to the first.
CycleAssignment ==
    [k \in Range(NAMES) |->
        LET i == CHOOSE j \in 1..Len(NAMES) : NAMES[j] = k
        IN NAMES[(i % Len(NAMES)) + 1]]

\* CycleAssignment, and every edit of it that rewrites one value or removes
\* one key.
StoredAssignments ==
    {CycleAssignment}
    \cup {[CycleAssignment EXCEPT ![k] = v] : k \in Range(NAMES), v \in ValuePool}
    \cup {[j \in Range(NAMES) \ {k} |-> CycleAssignment[j]] : k \in Range(NAMES)}

\* Revealed lists as found in the file: sound ones, one with a giver twice,
\* one with a stranger. (StorageContents adds the object without the field.)
StoredRevealed ==
    {<<>>, <<NAMES[1]>>, <<NAMES[2], NAMES[1]>>, <<NAMES[1], NAMES[1]>>, <<Outsider>>}

\* What state.json may hold when the process starts.
StorageContents ==
    {FileAbsent, FileGarbage, JSONStringify(Null)}
    \cup {JSONStringify([Round(NAMES, <<>>, r) EXCEPT !.hasAssignments = FALSE])
            : r \in StoredRevealed}
    \cup {JSONStringify(Round(NAMES, a, r)) : a \in StoredAssignments, r \in StoredRevealed}
    \cup {JSONStringify([Round(NAMES, a, <<>>) EXCEPT !.hasRevealed = FALSE])
            : a \in StoredAssignments}

InitStorage ==
    /\ file \in StorageContents
    /\ resp = NoResponse
    /\ drawn = NoDraws
    /\ boot = "restarted"
    /\ prev = file
    /\ GenIdle
    /\ ValIdle
    /\ ReqIdle

SpecStorage == InitStorage /\ [][Next]_vars

(***************************************************************************)
(* SpecConc: draw requests in flight at the same time                      *)
(* A request is received (its body parsed by express.json) and waits on    *)
(* the event loop; the handler (lines 200-226) then runs to completion:    *)
(* it calls readFileSync and writeFileSync and has no await or callback,   *)
(* so no other handler runs between its load and its save. The order in    *)
(* which waiting requests are handled is free.                             *)
(***************************************************************************)

\* A member's draw request arrives; each member sends one.
Receive ==
    \E name \in Range(NAMES) \ (inflight.pending \cup inflight.done) :
        /\ inflight' = [inflight EXCEPT !.pending = @ \cup {name}]
        /\ UNCHANGED serverVars
        /\ UNCHANGED <<genVars, valVars>>

\* The handler of one waiting request runs. overlap records the requests
\* that were waiting while this one was handled.
Serve ==
    \E name \in inflight.pending : \E r \in drawHandler(name, file) :
        /\ file' = r.file
        /\ resp' = r.resp
        /\ drawn' = IF r.resp.status = 200
                    THEN [History(r.generated) EXCEPT ![name] = r.resp.giftee]
                    ELSE History(r.generated)
        /\ boot' = Served
        /\ prev' = file
        /\ inflight' = [pending |-> inflight.pending \ {name},
                        done |-> inflight.done \cup {name},
                        overlap |-> inflight.overlap
                            \cup {<<name, h>> : h \in inflight.pending \ {name}}]
        /\ UNCHANGED <<genVars, valVars>>

NextConc == Receive \/ Serve

SpecConc == Init /\ [][NextConc]_vars

ServerIdle ==
    /\ file = FileAbsent
    /\ resp = NoResponse
    /\ drawn = NoDraws
    /\ boot = "restarted"
    /\ prev = FileAbsent

InitGen ==
    /\ gnames \in GenInputs
    /\ attempts = 0
    /\ perm = <<>>
    /\ gpc = "start"
    /\ gres = NoResult
    /\ ServerIdle
    /\ ValIdle
    /\ ReqIdle

NextGen == GenEnter \/ GenAttempt

SpecGen == InitGen /\ [][NextGen]_vars

\* createDerangement is synchronous code: once called it keeps running.
SpecGenFair == SpecGen /\ WF_vars(NextGen)

InitValidate ==
    /\ cand \in Candidates
    /\ verdict = NoVerdict
    /\ ServerIdle
    /\ GenIdle
    /\ ReqIdle

NextValidate == Validate

SpecValidate == InitValidate /\ [][NextValidate]_vars

(***************************************************************************)
(* Properties                                                              *)
(***************************************************************************)

\* The three assignment invariants of a mapping a over the members names:
\* the keys are exactly the members, every member is the value of exactly
\* one key, and no key maps to itself.
IsDerangementOf(a, names) ==
    /\ DOMAIN a = Range(names)
    /\ \A m \in Range(names) : Cardinality({k \in DOMAIN a : a[k] = m}) = 1
    /\ \A k \in DOMAIN a : a[k] # k

\* The stored file holds a round object.
StoredRound == file.kind = "json" /\ ~file.value.null /\ file.value.hasAssignments

\* C1: whenever createDerangement returns for n >= 2 unique names, the
\* returned mapping has exactly the names as keys, every name exactly once
\* as a value, and no name mapped to itself.
C1_GeneratedIsDerangement ==
    (gpc = "done" /\ gres.kind = "return" /\ Len(gnames) >= 2)
        => IsDerangementOf(gres.assignments, gnames)

\* C1 witness: the retry loop has accepted a permutation of three or more names.
C1_Witness ==
    gpc = "done" /\ gres.kind = "return" /\ Len(gnames) >= 3 /\ attempts >= 2

\* The step-by-step generator ends only in outcomes of createDerangement.
GenOutcomeKnown == gpc = "done" => gres \in createDerangement(gnames)

\* C2: validateAssignments returns without error only for mappings that
\* satisfy all three assignment invariants with respect to the members,
\* candidate mappings with values outside the member set included.
C2_ValidatedIsDerangement ==
    verdict.ok => IsDerangementOf(cand, NAMES)

MissingKey(a) == \E m \in Range(NAMES) : m \notin DOMAIN a
SharedValue(a) == \E k1, k2 \in DOMAIN a : k1 # k2 /\ a[k1] = a[k2]
SelfMapped(a) == \E m \in Range(NAMES) : m \in DOMAIN a /\ a[m] = m

\* C3: validateAssignments throws for every mapping that misses a member as
\* a key, in which two keys share a value, or in which a member maps to
\* itself.
C3_ValidateRejects ==
    (verdict # NoVerdict /\ (MissingKey(cand) \/ SharedValue(cand) \/ SelfMapped(cand)))
        => ~verdict.ok

\* C3 witness: a mapping with every member as a key and no self-assignment,
\* rejected for its shared value alone.
C3_Witness ==
    /\ verdict.reason = ErrDuplicate
    /\ ~MissingKey(cand) /\ ~SelfMapped(cand) /\ SharedValue(cand)

Occurrences(s, x) == Cardinality({i \in 1..Len(s) : s[i] = x})

\* C4: without a reset in between, every draw of a giver returns the giftee
\* the giver was shown before and reports alreadyRevealed = true from the
\* second draw on, and no giver occurs twice in the revealed list.
C4_DrawIdempotent ==
    /\ [](StoredRound =>
            \A g \in Range(NAMES) : Occurrences(file.value.revealed, g) <= 1)
    /\ [][(resp'.op = "draw" /\ resp'.status = 200 /\ drawn[resp'.name] # Empty)
            => (resp'.giftee = drawn[resp'.name] /\ resp'.alreadyRevealed)]_vars

\* C4 witness: a giver has drawn again and was answered alreadyRevealed.
C4_Witness ==
    /\ resp.op = "draw" /\ resp.status = 200 /\ resp.alreadyRevealed
    /\ drawn[resp.name] = resp.giftee
    /\ StoredRound /\ Occurrences(file.value.revealed, resp.name) = 1

\* C5: after a successful reset the stored round has an empty revealed list,
\* GET /api/state reports availableNames equal to the member list, and the
\* stored assignment is a derangement of the members.
C5_ResetFreshRound ==
    (resp.op = "reset" /\ resp.status = 200) =>
        /\ StoredRound
        /\ file.value.revealed = <<>>
        /\ \A v \in getPublicState(file) : ~v.threw /\ v.view.availableNames = NAMES
        /\ IsDerangementOf(file.value.assignments, NAMES)

\* C5 witness: a reset has succeeded after earlier requests.
C5_Witness ==
    resp.op = "reset" /\ resp.status = 200 /\ boot = "later" /\ StoredRound

\* C6: a draw with a missing name or a name outside the member list is
\* answered 400 invalid name and leaves the stored state as it was.
C6_InvalidNameRejected ==
    [][(resp'.op = "draw" /\ (resp'.name = Empty \/ resp'.name \notin Range(NAMES)))
        => (resp'.status = 400 /\ resp'.error = ErrInvalidName /\ file' = file)]_vars

\* C6 witness: a stranger was turned away and no round was created.
C6_Witness ==
    /\ resp.op = "draw" /\ resp.name = Outsider /\ resp.status = 400
    /\ file.kind = "absent"

\* s keeps the order of names and repeats nothing.
InOrderOf(s, names) ==
    \A i, j \in 1..Len(s) : i < j =>
        \E k, l \in 1..Len(names) : k < l /\ names[k] = s[i] /\ names[l] = s[j]

\* C7: availableNames is the member list without the revealed givers, in the
\* member order; it is disjoint from revealed, and the two cover the members.
C7_AvailableIsComplement ==
    StoredRound =>
        \A v \in getPublicState(file) :
            /\ ~v.threw
            /\ v.view.revealed = file.value.revealed
            /\ Range(v.view.availableNames) = Range(NAMES) \ Range(v.view.revealed)
            /\ InOrderOf(v.view.availableNames, NAMES)
            /\ Len(v.view.availableNames) = Cardinality(Range(v.view.availableNames))
            /\ Range(v.view.availableNames) \cap Range(v.view.revealed) = {}
            /\ Range(v.view.availableNames) \cup Range(v.view.revealed) = Range(NAMES)

\* C7 witness: GET /api/state answered with some givers revealed and some not.
C7_Witness ==
    /\ resp.op = "state" /\ resp.status = 200
    /\ Len(resp.body.availableNames) >= 2 /\ Len(resp.body.revealed) >= 1
    /\ StoredRound /\ resp.body.revealed = file.value.revealed

Derangements == {a \in [Range(NAMES) -> Range(NAMES)] : IsDerangementOf(a, NAMES)}

Views(f) == {v.view : v \in getPublicState(f)}

\* C8: the public state does not depend on the assignment: with any other
\* derangement stored in its place the result is the same, and the result
\* has the three fields names, availableNames and revealed, each a list of
\* member names.
C8_PublicStateHidesAssignment ==
    StoredRound =>
        /\ \A a \in Derangements :
              Views([file EXCEPT !.value.assignments = a]) = Views(file)
        /\ \A v \in getPublicState(file) :
              /\ ~v.threw
              /\ DOMAIN v.view = {"names", "availableNames", "revealed"}
              /\ \A fld \in DOMAIN v.view : Range(v.view[fld]) \subseteq Range(NAMES)

\* C8 witness: GET /api/state answered on a round in which a giver has drawn.
C8_Witness ==
    /\ resp.op = "state" /\ resp.status = 200 /\ StoredRound
    /\ Len(file.value.revealed) >= 1
    /\ \E a \in Derangements : a # file.value.assignments

\* C9: a draw, a state read or a debug dump on a stored round with a valid
\* assignment keeps every revealed giver in the revealed list.
C9_RevealedOnlyGrows ==
    [][(StoredRound /\ IsDerangementOf(file.value.assignments, NAMES)
            /\ resp'.op # "reset")
        => (file'.kind = "json"
            /\ Range(file.value.revealed) \subseteq Range(file'.value.revealed))]_vars

\* C9 witness: a second giver has drawn and the first is still revealed.
C9_Witness ==
    /\ resp.op = "draw" /\ resp.status = 200 /\ ~resp.alreadyRevealed
    /\ StoredRound /\ Len(file.value.revealed) >= 2

\* C10: once a request has been answered the file holds the round the answer
\* was computed from; so the first draw after a restart reports
\* alreadyRevealed exactly for a giver who drew before, with the same giftee.
C10_PersistedBeforeResponse ==
    /\ []((resp.status = 200) =>
            /\ StoredRound
            /\ resp.op = "draw" =>
                  /\ Includes(file.value.revealed, resp.name)
                  /\ file.value.assignments[resp.name] = resp.giftee
            /\ resp.op = "state" =>
                  /\ resp.body.names = file.value.names
                  /\ resp.body.revealed = file.value.revealed
            /\ resp.op = "debug" => resp.body = file.value.assignments
            /\ resp.op = "reset" => file.value.revealed = <<>>)
    /\ [][(boot = "restarted" /\ resp'.op = "draw" /\ resp'.status = 200)
            => /\ resp'.alreadyRevealed = (drawn[resp'.name] # Empty)
               /\ drawn[resp'.name] # Empty => resp'.giftee = drawn[resp'.name]]_vars

\* C10 witness: the first request after a restart is a draw by a giver who
\* drew before the restart.
C10_Witness ==
    /\ boot = "first" /\ resp.op = "draw" /\ resp.status = 200
    /\ resp.alreadyRevealed /\ drawn[resp.name] = resp.giftee

\* The file holds nothing initState(false) accepts: it is absent, does not
\* parse, parses to null, lacks assignments, or its assignments fail
\* validateAssignments.
NeedsNewRound(f) ==
    \/ f.kind = "absent"
    \/ f.kind = "garbage"
    \/ f.value.null
    \/ ~f.value.hasAssignments
    \/ ~validateAssignments(f.value.assignments, NAMES).ok

\* The latest request went through initState(false).
EnsuredRound ==
    \/ resp.op \in {"state", "debug"}
    \/ resp.op = "draw" /\ resp.name \in Range(NAMES)

\* The file holds a new round: a derangement of the members, nobody revealed
\* but the giver of the draw that created it.
FreshRoundStored ==
    /\ StoredRound
    /\ file.value.names = NAMES
    /\ IsDerangementOf(file.value.assignments, NAMES)
    /\ file.value.revealed = IF resp.op = "draw" THEN <<resp.name>> ELSE <<>>

\* C11 as claimed: on storage that needs a new round, initState(false)
\* surfaces no error and a new valid round with nobody revealed is stored.
C11_NoErrorSurfaced ==
    (NeedsNewRound(prev) /\ EnsuredRound) => (resp.status = 200 /\ FreshRoundStored)

\* C11: on storage that is absent, unparseable, without assignments or with
\* invalid assignments, initState(false) surfaces no error but the
\* generator's own (the retry ceiling), and then the file is left as it was;
\* otherwise a new valid round with nobody revealed is returned and stored.
C11_RegeneratesOrGenerationError ==
    /\ (NeedsNewRound(prev) /\ EnsuredRound) =>
          \/ resp.status = 500 /\ file = prev
          \/ resp.status = 200 /\ FreshRoundStored
    /\ NeedsNewRound(file) =>
          \A o \in initState(FALSE, file) :
              IF o.threw THEN o.error = ErrCeiling /\ o.file = file
              ELSE /\ o.file = saveState(o.state)
                   /\ o.state.revealed = <<>>
                   /\ IsDerangementOf(o.state.assignments, NAMES)

\* C11 witness: a state read found stored assignments that fail validation
\* and answered from a new round.
C11_Witness ==
    /\ prev.kind = "json" /\ prev.value.hasAssignments
    /\ ~validateAssignments(prev.value.assignments, NAMES).ok
    /\ prev.value.revealed # <<>>
    /\ resp.op = "state" /\ resp.status = 200 /\ FreshRoundStored

\* C12: when two draw requests by different members were in flight together
\* and both have been answered, both members are in the stored revealed list.
C12_NoLostReveal ==
    \A pair \in inflight.overlap :
        (pair[2] \in inflight.done /\ drawn[pair[1]] # Empty /\ drawn[pair[2]] # Empty)
            => (StoredRound /\ {pair[1], pair[2]} \subseteq Range(file.value.revealed))

\* C12 witness: two requests waited together, both were answered 200.
C12_Witness ==
    \E pair \in inflight.overlap :
        /\ pair[2] \in inflight.done
        /\ drawn[pair[1]] # Empty /\ drawn[pair[2]] # Empty
        /\ resp.op = "draw" /\ resp.name = pair[2] /\ ~resp.alreadyRevealed

\* The stored assignments pass validateAssignments and the revealed list
\* beside them is missing, repeats a name or names a stranger.
TamperedRevealed(f) ==
    /\ ~NeedsNewRound(f)
    /\ \/ ~f.value.hasRevealed
       \/ ~(Range(f.value.revealed) \subseteq Range(NAMES))
       \/ Cardinality(Range(f.value.revealed)) # Len(f.value.revealed)

\* C13 as claimed: a tampered revealed list beside a valid assignment is
\* healed: the operation that ensures a round answers from a new round with
\* nobody revealed.
C13_TamperedRevealedHealed ==
    (TamperedRevealed(prev) /\ EnsuredRound /\ resp.op # "draw")
        => (resp.status = 200 => FreshRoundStored)

\* C13: corruption that makes initState(false) need a new round is healed by
\* a new round with nobody revealed (when generation succeeds); a tampered
\* revealed list beside assignments that pass validateAssignments is not
\* detected: state reads and debug dumps answer from the stored record and
\* leave it as it is, a draw keeps the stored assignment and list, and fails
\* with 500 when the record has no revealed list.
C13_OnlyAssignmentCorruptionHealed ==
    /\ (NeedsNewRound(prev) /\ EnsuredRound /\ resp.status = 200) => FreshRoundStored
    /\ (TamperedRevealed(prev) /\ EnsuredRound) =>
          /\ StoredRound
          /\ file.value.assignments = prev.value.assignments
          /\ file.value.hasRevealed = prev.value.hasRevealed
          /\ resp.op # "draw" =>
                /\ resp.status = 200
                /\ file = prev
                /\ resp.op = "state" => resp.body = publicView(prev.value)
          /\ resp.op = "draw" =>
                IF prev.value.hasRevealed
                THEN /\ resp.status = 200
                     /\ SubSeq(file.value.revealed, 1, Len(prev.value.revealed))
                            = prev.value.revealed
                ELSE resp.status = 500 /\ file = prev

\* C13 witness: a state read answered with a stored revealed list that names
\* a giver twice.
C13_Witness ==
    /\ TamperedRevealed(prev) /\ prev.value.hasRevealed
    /\ Cardinality(Range(prev.value.revealed)) # Len(prev.value.revealed)
    /\ resp.op = "state" /\ resp.status = 200
    /\ resp.body.revealed = prev.value.revealed
    /\ file = prev

\* The five checks of the validator, each as a property of the mapping.
KeyCountWrong(a) == Cardinality(DOMAIN a) # Len(NAMES)
ValueCountWrong(a) == Cardinality(DOMAIN a) # Len(NAMES)
NoGiftee(a, m) == m \notin DOMAIN a \/ a[m] = Empty
SomeNoGiftee(a) == \E m \in Range(NAMES) : NoGiftee(a, m)
GivesSelf(a, m) == m \in DOMAIN a /\ a[m] = m
SomeGivesSelf(a) == \E m \in Range(NAMES) : GivesSelf(a, m)
DuplicateGiftee(a) == \E k1, k2 \in DOMAIN a : k1 # k2 /\ a[k1] = a[k2]

\* The reason of the lowest-numbered violated check.
LowestViolated(a) ==
    IF KeyCountWrong(a) THEN ErrKeyCount
    ELSE IF ValueCountWrong(a) THEN ErrValueCount
    ELSE IF SomeNoGiftee(a) THEN ErrMissing
    ELSE IF SomeGivesSelf(a) THEN ErrSelf
    ELSE IF DuplicateGiftee(a) THEN ErrDuplicate
    ELSE "ok"

\* C14 as claimed: the error reported is that of the lowest-numbered violated
\* check among key count, value count, missing giftee, self-assignment,
\* duplicate giftees.
C14_LowestCheckReported ==
    verdict # NoVerdict => verdict.reason = LowestViolated(cand)

\* The first member, in member order, without a giftee or giving to itself.
FirstBadMember(a) ==
    NAMES[CHOOSE i \in 1..Len(NAMES) :
            /\ NoGiftee(a, NAMES[i]) \/ GivesSelf(a, NAMES[i])
            /\ \A j \in 1..(i - 1) : ~NoGiftee(a, NAMES[j]) /\ ~GivesSelf(a, NAMES[j])]

\* C14: key count, then value count; then the members in member order, the
\* first member that has no giftee or gives to itself being reported with
\* its own reason; then duplicate giftees.
C14_ReportedPerMemberOrder ==
    verdict # NoVerdict =>
        verdict =
            IF KeyCountWrong(cand) THEN Err(ErrKeyCount, Empty)
            ELSE IF ValueCountWrong(cand) THEN Err(ErrValueCount, Empty)
            ELSE IF SomeNoGiftee(cand) \/ SomeGivesSelf(cand)
                 THEN IF NoGiftee(cand, FirstBadMember(cand))
                      THEN Err(ErrMissing, FirstBadMember(cand))
                      ELSE Err(ErrSelf, FirstBadMember(cand))
            ELSE IF DuplicateGiftee(cand) THEN Err(ErrDuplicate, Empty)
            ELSE Ok

\* C14 witness: a self-assignment was reported for a mapping in which a later
\* member has no giftee.
C14_Witness ==
    /\ verdict.reason = ErrSelf
    /\ SomeNoGiftee(cand)
    /\ DuplicateGiftee(cand)

\* The positions at which p repeats names.
FixedPoints(p, names) == {i \in 1..Len(p) : p[i] = names[i]}

\* C15: createDerangement terminates; for two names it returns the swap
\* without drawing; for three or more it returns the first drawn permutation
\* without a fixed point, or throws the generation error when the attempt
\* counter exceeds 10000; it never returns a permutation with a fixed point
\* and never runs past the ceiling.
C15_TerminatesWithinCeiling ==
    /\ <>(gpc = "done")
    /\ [](attempts <= MaxAttempts + 1)
    /\ []((gpc = "done" /\ Len(gnames) = 2) =>
            /\ attempts = 0 /\ perm = <<>>
            /\ gres.kind = "return"
            /\ gres.assignments[gnames[1]] = gnames[2]
            /\ gres.assignments[gnames[2]] = gnames[1])
    /\ []((gpc = "done" /\ Len(gnames) >= 3) =>
            \/ /\ gres.kind = "return"
               /\ attempts <= MaxAttempts
               /\ FixedPoints(perm, gnames) = {}
               /\ \A i \in 1..Len(gnames) : gres.assignments[gnames[i]] = perm[i]
            \/ /\ gres.kind = "throw"
               /\ gres.error = ErrCeiling
               /\ attempts = MaxAttempts + 1)
    /\ [][gpc = "loop" =>
            /\ attempts' = attempts + 1
            /\ (gpc' = "loop") = (attempts' <= MaxAttempts /\ FixedPoints(perm', gnames) # {})
         ]_vars

\* C15 witness: the generation error was thrown at the ceiling.
C15_Witness ==
    gpc = "done" /\ gres.kind = "throw" /\ gres.error = ErrCeiling
        /\ attempts = MaxAttempts + 1 /\ Len(gnames) >= 3

\* C16: a draw, a state read or a debug dump on a stored round with a valid
\* assignment leaves the stored assignment and member list unchanged; state
\* reads and debug dumps leave the whole file unchanged; a draw changes at
\* most the revealed list, by appending its giver.
C16_OnlyRevealedAppended ==
    [][(~NeedsNewRound(file) /\ resp'.op \in {"draw", "state", "debug"})
        => /\ file'.kind = "json"
           /\ file'.value.assignments = file.value.assignments
           /\ file'.value.names = file.value.names
           /\ resp'.op \in {"state", "debug"} => file' = file
           /\ \/ file' = file
              \/ /\ file.value.hasRevealed
                 /\ file'.value = [file.value EXCEPT
                                     !.revealed = Append(@, resp'.name)]]_vars

\* C16 witness: a draw appended its giver to a round that already had a
\* revealed giver, and the assignment is the one stored before.
C16_Witness ==
    /\ resp.op = "draw" /\ resp.status = 200 /\ ~resp.alreadyRevealed
    /\ ~NeedsNewRound(prev) /\ StoredRound
    /\ Len(prev.value.revealed) >= 1
    /\ file.value.revealed = Append(prev.value.revealed, resp.name)
    /\ file.value.assignments = prev.value.assignments

\* The revealed list a draw on file f works on: the stored one when the round
\* is kept, the empty one of the round the draw starts otherwise.
RevealedBefore(f) == IF NeedsNewRound(f) THEN <<>> ELSE f.value.revealed

\* C17: a successful draw by g reports alreadyRevealed = true exactly when g
\* was in the round's revealed list before the request; when it reports
\* false the stored round has g appended to that list; when it reports true
\* the file is left as it was.
C17_AlreadyRevealedExact ==
    [][(resp'.op = "draw" /\ resp'.status = 200)
        => /\ resp'.alreadyRevealed
                = (\E i \in 1..Len(RevealedBefore(file)) :
                        RevealedBefore(file)[i] = resp'.name)
           /\ ~resp'.alreadyRevealed =>
                /\ file'.kind = "json" /\ ~file'.value.null
                /\ file'.value.hasRevealed
                /\ file'.value.revealed = Append(RevealedBefore(file), resp'.name)
                /\ file'.value.assignments[resp'.name] = resp'.giftee
           /\ resp'.alreadyRevealed => file' = file]_vars

\* C17 witness: a giver outside a non-empty revealed list drew, was answered
\* alreadyRevealed = false and now ends the stored list.
C17_Witness ==
    /\ resp.op = "draw" /\ resp.status = 200 /\ ~resp.alreadyRevealed
    /\ ~NeedsNewRound(prev) /\ prev.value.revealed # <<>>
    /\ StoredRound /\ file.value.revealed = Append(prev.value.revealed, resp.name)

\* Every member is in the stored revealed list.
FullyRevealed == StoredRound /\ Range(file.value.revealed) = Range(NAMES)

\* The file holds a round nobody has drawn from, with a derangement.
FreshRound ==
    /\ StoredRound /\ file.value.revealed = <<>>
    /\ IsDerangementOf(file.value.assignments, NAMES)

\* C18: once every member has drawn, the revealed list holds all members and
\* availableNames is empty; every further draw by a member succeeds with
\* alreadyRevealed = true; a reset that succeeds is possible in every state
\* and always leaves a round with an empty revealed list and a derangement.
C18_FullyRevealedNotTerminal ==
    /\ []((\A g \in Range(NAMES) : drawn[g] # Empty) => FullyRevealed)
    /\ []((FullyRevealed /\ resp.op = "state" /\ resp.status = 200)
            => resp.body.availableNames = <<>>)
    /\ [](FullyRevealed =>
            \A g \in Range(NAMES) :
                ENABLED (Draw /\ resp'.name = g /\ resp'.status = 200))
    /\ [][(FullyRevealed /\ resp'.op = "draw" /\ resp'.name \in Range(NAMES))
            => (resp'.status = 200 /\ resp'.alreadyRevealed /\ FullyRevealed')]_vars
    /\ [](ENABLED (Reset /\ resp'.status = 200))
    /\ [][(resp'.op = "reset" /\ resp'.status = 200) => FreshRound']_vars

\* C18 witness: a reset answered a fully revealed round with a fresh one.
C18_Witness ==
    /\ resp.op = "reset" /\ resp.status = 200 /\ FreshRound
    /\ prev.kind = "json" /\ Range(prev.value.revealed) = Range(NAMES)

\* C19: in the rounds the program produces, every giver was shown a member
\* other than itself, and two givers of the same round were shown different
\* members.
C19_DrawsFormDerangement ==
    /\ (resp.op = "draw" /\ resp.status = 200) => drawn[resp.name] = resp.giftee
    /\ \A g \in Range(NAMES) : drawn[g] # Empty =>
            /\ drawn[g] \in Range(NAMES)
            /\ drawn[g] # g
            /\ \A h \in Range(NAMES) \ {g} : drawn[h] # Empty => drawn[h] # drawn[g]

\* C19 witness: every member has drawn in the same round.
C19_Witness ==
    /\ \A g \in Range(NAMES) : drawn[g] # Empty
    /\ resp.op = "draw" /\ resp.status = 200 /\ ~resp.alreadyRevealed

\* C20: a request during which generation failed is answered 500 and leaves
\* the file exactly as it was, whether initState ran for a reset or because
\* the file held no usable round.
C20_FailedGenerationWritesNothing ==
    [][(resp'.status = 500 /\ (resp'.op = "reset" \/ NeedsNewRound(file)))
        => file' = file]_vars

\* C20 witness: a reset failed on a round with a revealed giver, which is
\* still stored.
C20_Witness ==
    /\ resp.op = "reset" /\ resp.status = 500
    /\ StoredRound /\ Len(file.value.revealed) >= 1
    /\ file = prev

====
